---- MODULE Spec2Model ----
(***************************************************************************)
(* Model of the two VRF constructions of the repository:                   *)
(*   src/src/ec_vrf.rs   EC-VRF over Ed25519 (curve25519_dalek)            *)
(*   src/src/rka_vrf.rs  InversionProof and RKA-VRF, generic over a        *)
(*                       prime-order curve (curv)                          *)
(*                                                                         *)
(* Scalars are the integers mod Q.  A point of the prime-order group used  *)
(* by rka_vrf.rs is written as its discrete logarithm to the generator, so *)
(* point addition is + mod Q and scalar multiplication is * mod Q.  An     *)
(* Edwards point of ec_vrf.rs is a pair <<a, t>>: a is the component in    *)
(* the prime-order subgroup, t the component in the torsion subgroup of    *)
(* order Cofactor.  SHA-512 is a seeded mixing function of the hashed      *)
(* bytes with DigestSpace > Q digests; the seed is drawn in Init, so every *)
(* property is checked for several hash functions.  The scalars the code   *)
(* draws from its random number generator are inputs of the actions.       *)
(***************************************************************************)
EXTENDS Integers, Sequences, FiniteSets, TLC

VARIABLES seed, scheme, inp, out, prev, nEval, ver

vars == <<seed, scheme, inp, out, prev, nEval, ver>>

\* Order of the scalar field and of the prime-order group.
Q == 5
\* Order of the torsion subgroup of the Edwards curve (mul_by_cofactor).
Cofactor == 8

\* Number of digests of the hash (more than Q: a digest is reduced to a scalar).
DigestSpace == 6
\* Hash functions tried: seeds 0..MaxSeed.
MaxSeed == 1
\* The prover's random scalars alpha, beta, tau0, tau1 are drawn from 0..MaxRand.
MaxRand == 1
\* Points given by the caller (x, g_tilde, h_tilde, wrong keys): g*0 .. g*MaxPt.
MaxPt == 1
\* Torsion components of the Edwards points given by the caller: 0..MaxTorsion.
MaxTorsion == 1
\* Invocations of eval on the same key and input.
MaxEvals == 2
\* A corrupted field is the honest one plus 1..MaxDelta.
MaxDelta == 1

Scalars == 0 .. (Q - 1)
RandSet == {r % Q : r \in 0 .. MaxRand}
PointSet == {p % Q : p \in 0 .. MaxPt}
EcPointSet == {<<a % Q, t % Cofactor>> : a \in 0 .. MaxPt, t \in 0 .. MaxTorsion}
Deltas == {d \in 1 .. MaxDelta : d % Q # 0}

---------------------------------------------------------------------------
(* Scalar field *)

SAdd(a, b) == (a + b) % Q
SMul(a, b) == (a * b) % Q
SNeg(a) == (Q - a) % Q
SSub(a, b) == (a + Q - b) % Q

NoneV == [some |-> FALSE]
Some(v) == [some |-> TRUE, val |-> v]

\* A slip: the inverse of zero silently taken to be zero.
invert_zero_is_zero(s) ==
    IF s = 0 THEN Some(0) ELSE Some(CHOOSE y \in 1 .. (Q - 1) : (s * y) % Q = 1)

\* Scalar::invert: None for the zero scalar.
invert(s) ==
    IF s = 0 THEN NoneV ELSE Some(CHOOSE y \in 1 .. (Q - 1) : (s * y) % Q = 1)

(* Prime-order group of rka_vrf.rs, points as discrete logarithms *)

Generator == 1
PAdd(p, q) == (p + q) % Q
PMul(p, s) == (p * s) % Q
Identity == PMul(Generator, 0)
PointBytes(p) == <<p>>

(* Edwards points of ec_vrf.rs *)

ED25519_BASEPOINT_POINT == <<1, 0>>
EcIdentity == <<0, 0>>
EAdd(p, q) == <<(p[1] + q[1]) % Q, (p[2] + q[2]) % Cofactor>>
EMul(p, s) == <<(p[1] * s) % Q, (p[2] * s) % Cofactor>>
mul_by_cofactor(p) == <<(p[1] * Cofactor) % Q, 0>>
EcCompress(p) == <<p[1] * Cofactor + p[2]>>
ScalarBytes(x) == <<x>>

(* SHA-512 *)

RECURSIVE MixBytes(_, _)
MixBytes(bytes, acc) ==
    IF bytes = <<>> THEN acc
    ELSE MixBytes(Tail(bytes), (acc * 31 + Head(bytes) + 1) % 1009)

Sha512(bytes) == (((MixBytes(bytes, 7) * (2 * seed + 1)) % 1009) + seed) % DigestSpace

---------------------------------------------------------------------------
(* ec_vrf.rs *)

ec_hash_point(x) == <<Sha512(ScalarBytes(x)) % Q, 0>>

\* A slip: the public key left out of the challenge transcript.
ec_challenge_bytes_no_vk(g, h, vk, gamma, gk, hk) ==
    EcCompress(g) \o EcCompress(h) \o EcCompress(gamma)
        \o EcCompress(gk) \o EcCompress(hk)

ec_challenge_bytes(g, h, vk, gamma, gk, hk) ==
    EcCompress(g) \o EcCompress(h) \o EcCompress(vk) \o EcCompress(gamma)
        \o EcCompress(gk) \o EcCompress(hk)

ec_hash_challenge(g, h, vk, gamma, gk, hk) ==
    Sha512(ec_challenge_bytes(g, h, vk, gamma, gk, hk)) % Q

ec_hash_output(gamma_f) == Sha512(EcCompress(gamma_f))

\* A slip: the response computed as k + c*sk.
ec_eval_plus(vk, sk, x, k) ==
    LET h == ec_hash_point(x)
        gamma == EMul(h, sk)
        gk == EMul(ED25519_BASEPOINT_POINT, k)
        hk == EMul(h, k)
        c == ec_hash_challenge(ED25519_BASEPOINT_POINT, h, vk, gamma, gk, hk)
        s == SAdd(k, SMul(c, sk))
        y == ec_hash_output(mul_by_cofactor(gamma))
    IN  [gamma |-> gamma, c |-> c, s |-> s, y |-> y]

\* A slip: the output hashed from the nonce commitment h*k instead of gamma.
ec_eval_y_from_nonce(vk, sk, x, k) ==
    LET h == ec_hash_point(x)
        gamma == EMul(h, sk)
        gk == EMul(ED25519_BASEPOINT_POINT, k)
        hk == EMul(h, k)
        c == ec_hash_challenge(ED25519_BASEPOINT_POINT, h, vk, gamma, gk, hk)
        s == SSub(k, SMul(c, sk))
        y == ec_hash_output(mul_by_cofactor(hk))
    IN  [gamma |-> gamma, c |-> c, s |-> s, y |-> y]

ec_eval(vk, sk, x, k) ==
    LET h == ec_hash_point(x)
        gamma == EMul(h, sk)
        gk == EMul(ED25519_BASEPOINT_POINT, k)
        hk == EMul(h, k)
        c == ec_hash_challenge(ED25519_BASEPOINT_POINT, h, vk, gamma, gk, hk)
        s == SSub(k, SMul(c, sk))
        y == ec_hash_output(mul_by_cofactor(gamma))
    IN  [gamma |-> gamma, c |-> c, s |-> s, y |-> y]

ec_verify_u(o, vk) == EAdd(EMul(vk, o.c), EMul(ED25519_BASEPOINT_POINT, o.s))
ec_verify_v(o, x) == EAdd(EMul(o.gamma, o.c), EMul(ec_hash_point(x), o.s))

\* A slip: the output y not compared.
ec_verify_no_y(o, vk, x) ==
    LET u == ec_verify_u(o, vk)
        h == ec_hash_point(x)
        v == ec_verify_v(o, x)
        c_comp == ec_hash_challenge(ED25519_BASEPOINT_POINT, h, vk, o.gamma, u, v)
    IN  o.c = c_comp

ec_verify(o, vk, x) ==
    LET u == ec_verify_u(o, vk)
        h == ec_hash_point(x)
        v == ec_verify_v(o, x)
        c_comp == ec_hash_challenge(ED25519_BASEPOINT_POINT, h, vk, o.gamma, u, v)
        y_comp == ec_hash_output(mul_by_cofactor(o.gamma))
    IN  o.c = c_comp /\ o.y = y_comp

---------------------------------------------------------------------------
(* rka_vrf.rs *)

RECURSIVE chain_points(_)
chain_points(pts) ==
    IF pts = <<>> THEN <<>> ELSE PointBytes(Head(pts)) \o chain_points(Tail(pts))

result_bigint(bytes) == Sha512(bytes)
from_bigint(n) == n % Q

challenge(g, h, g_tilde, h_tilde, delta, theta, s1, s2, t0, t1) ==
    from_bigint(result_bigint(chain_points(
        <<g, h, g_tilde, h_tilde, delta, theta, s1, s2, t0, t1>>)))

Panic == [st |-> "panic"]
Ok(v) == [st |-> "ok", val |-> v]

\* A slip: the response zr computed with gamma instead of its inverse.
prove_zr_no_inverse(g, h, g_tilde, h_tilde, gamma, delta, theta, rnd) ==
    LET gi == invert(gamma) IN
    IF ~gi.some THEN Panic
    ELSE
    LET alpha == rnd.alpha
        beta == rnd.beta
        s1 == PMul(g, alpha)
        s2 == PMul(h, beta)
        tau0 == rnd.tau0
        tau1 == rnd.tau1
        t0 == SMul(alpha, beta)
        t1 == SAdd(SMul(alpha, gi.val), SMul(beta, gamma))
        t0_point == PAdd(PMul(g_tilde, t0), PMul(h_tilde, tau0))
        t1_point == PAdd(PMul(g_tilde, t1), PMul(h_tilde, tau1))
        x == challenge(g, h, g_tilde, h_tilde, delta, theta, s1, s2, t0_point, t1_point)
        zt == SAdd(SMul(tau1, x), tau0)
        zl == SAdd(alpha, SMul(x, gamma))
        zr == SAdd(beta, SMul(x, gamma))
    IN  Ok([zt |-> zt, zl |-> zl, zr |-> zr, x |-> x, t1_point |-> t1_point])

prove(g, h, g_tilde, h_tilde, gamma, delta, theta, rnd) ==
    LET gi == invert(gamma) IN
    IF ~gi.some THEN Panic
    ELSE
    LET alpha == rnd.alpha
        beta == rnd.beta
        s1 == PMul(g, alpha)
        s2 == PMul(h, beta)
        tau0 == rnd.tau0
        tau1 == rnd.tau1
        t0 == SMul(alpha, beta)
        t1 == SAdd(SMul(alpha, gi.val), SMul(beta, gamma))
        t0_point == PAdd(PMul(g_tilde, t0), PMul(h_tilde, tau0))
        t1_point == PAdd(PMul(g_tilde, t1), PMul(h_tilde, tau1))
        x == challenge(g, h, g_tilde, h_tilde, delta, theta, s1, s2, t0_point, t1_point)
        zt == SAdd(SMul(tau1, x), tau0)
        zl == SAdd(alpha, SMul(x, gamma))
        zr == SAdd(beta, SMul(x, gi.val))
    IN  Ok([zt |-> zt, zl |-> zl, zr |-> zr, x |-> x, t1_point |-> t1_point])

\* A slip: the square of the challenge left out of the reconstructed T0.
inv_verify_t0_no_square(pf, g_tilde, h_tilde) ==
    PAdd(PAdd(PMul(g_tilde, SMul(pf.zl, pf.zr)), PMul(h_tilde, pf.zt)),
         PMul(pf.t1_point, SNeg(pf.x)))

inv_verify_t0(pf, g_tilde, h_tilde) ==
    PAdd(PAdd(PMul(g_tilde, SSub(SMul(pf.zl, pf.zr), SMul(pf.x, pf.x))),
              PMul(h_tilde, pf.zt)),
         PMul(pf.t1_point, SNeg(pf.x)))

inv_verify_s1(pf, g, delta) == PAdd(PMul(g, pf.zl), PMul(delta, SNeg(pf.x)))
inv_verify_s2(pf, h, theta) == PAdd(PMul(h, pf.zr), PMul(theta, SNeg(pf.x)))

inv_verify(pf, g, h, g_tilde, h_tilde, delta, theta) ==
    LET t0_point == inv_verify_t0(pf, g_tilde, h_tilde)
        s1 == inv_verify_s1(pf, g, delta)
        s2 == inv_verify_s2(pf, h, theta)
        x_comp == challenge(g, h, g_tilde, h_tilde, delta, theta, s1, s2,
                            t0_point, pf.t1_point)
    IN  x_comp = pf.x

rka_hash_point(vk, x) ==
    PMul(Generator, from_bigint(result_bigint(chain_points(<<vk, x>>))))

\* A slip: the output digest reduced modulo the group order.
rka_hash_output_reduced(x, u) == from_bigint(result_bigint(chain_points(<<x, u>>)))

rka_hash_output(x, u) == result_bigint(chain_points(<<x, u>>))

\* A slip: the output hashed from the proof's commitment instead of u.
rka_eval_y_from_proof(g_tilde, h_tilde, vk, sk, x, rnd) ==
    LET base == rka_hash_point(vk, x)
        ski == invert(sk)
    IN  IF ~ski.some THEN Panic
        ELSE
        LET u == PMul(base, ski.val)
            r == prove(Generator, base, g_tilde, h_tilde, sk, vk, u, rnd)
        IN  IF r.st = "panic" THEN Panic
            ELSE Ok([y |-> rka_hash_output(x, r.val.t1_point), u |-> u, r |-> r.val])

rka_eval(g_tilde, h_tilde, vk, sk, x, rnd) ==
    LET base == rka_hash_point(vk, x)
        ski == invert(sk)
    IN  IF ~ski.some THEN Panic
        ELSE
        LET u == PMul(base, ski.val)
            r == prove(Generator, base, g_tilde, h_tilde, sk, vk, u, rnd)
        IN  IF r.st = "panic" THEN Panic
            ELSE Ok([y |-> rka_hash_output(x, u), u |-> u, r |-> r.val])

rka_verify(o, g_tilde, h_tilde, vk, x) ==
    /\ o.y = rka_hash_output(x, o.u)
    /\ inv_verify(o.r, Generator, rka_hash_point(vk, x), g_tilde, h_tilde, vk, o.u)

---------------------------------------------------------------------------
(* State: the key and input at hand (inp), the output of the invocation at  *)
(* hand (out, with the scalars its prover drew), what the invocation before *)
(* it returned (prev), and the last verification (ver).  A run verifies the *)
(* output of its first invocation, as the tests do; the later invocations   *)
(* on the same key and input return outputs from the same set, and are      *)
(* compared with the invocation before.                                     *)

NoOut == [st |-> "none"]
NoVer == [st |-> "none"]

InitCommon ==
    /\ seed \in 0 .. MaxSeed
    /\ out = NoOut
    /\ prev = NoOut
    /\ nEval = 0
    /\ ver = NoVer

\* ec_vrf.rs, tests::test_valid: vk = g*sk, any scalar input.
InitEc ==
    /\ InitCommon
    /\ scheme = "ec"
    /\ \E sk \in Scalars, x \in Scalars :
          inp = [sk |-> sk, vk |-> EMul(ED25519_BASEPOINT_POINT, sk), x |-> x]

\* rka_vrf.rs, tests::test_generic_inversion_proof: delta = g*gamma and
\* theta = h*gamma^-1 (the identity when gamma has no inverse).
InitInv ==
    /\ InitCommon
    /\ scheme = "inv"
    /\ \E g \in PointSet, h \in PointSet, g_tilde \in PointSet, h_tilde \in PointSet,
          gamma \in Scalars :
          inp = [g |-> g, h |-> h, g_tilde |-> g_tilde, h_tilde |-> h_tilde,
                 gamma |-> gamma, delta |-> PMul(g, gamma),
                 theta |-> IF gamma = 0 THEN Identity
                           ELSE PMul(h, invert(gamma).val)]

\* rka_vrf.rs, tests::test_generic_vrf: vk = g*sk, any point input.
InitRka ==
    /\ InitCommon
    /\ scheme = "rka"
    /\ \E sk \in Scalars, x \in PointSet :
          inp = [sk |-> sk, vk |-> PMul(Generator, sk), x |-> x]

Init == InitEc \/ InitInv \/ InitRka

Rnds == [alpha : RandSet, beta : RandSet, tau0 : RandSet, tau1 : RandSet]

(* EC-VRF *)

EcEval ==
    /\ scheme = "ec"
    /\ out.st = "none"
    /\ nEval < MaxEvals
    /\ \E k \in Scalars :
          out' = [st |-> "ok", val |-> ec_eval(inp.vk, inp.sk, inp.x, k), k |-> k]
    /\ nEval' = nEval + 1
    /\ UNCHANGED <<seed, scheme, inp, prev, ver>>

\* verify of the output at hand, against any key and input.
EcVerify ==
    /\ scheme = "ec"
    /\ out.st = "ok"
    /\ nEval = 1
    /\ ver.st = "none"
    /\ \E vk \in EcPointSet \cup {inp.vk}, x \in Scalars :
          ver' = [st |-> "done", kind |-> "args", o |-> out.val, vk |-> vk, x |-> x,
                  res |-> ec_verify(out.val, vk, x)]
    /\ UNCHANGED <<seed, scheme, inp, out, prev, nEval>>

\* The output at hand with one field replaced by a different value.
EcTampered(o) ==
    {[o EXCEPT !.gamma = EAdd(o.gamma, p)] : p \in EcPointSet \ {EcIdentity}}
    \cup {[o EXCEPT !.c = SAdd(o.c, d)] : d \in Deltas}
    \cup {[o EXCEPT !.s = SAdd(o.s, d)] : d \in Deltas}
    \cup {[o EXCEPT !.y = (o.y + d) % DigestSpace] : d \in Deltas}

EcVerifyTampered ==
    /\ scheme = "ec"
    /\ out.st = "ok"
    /\ nEval = 1
    /\ ver.st = "none"
    /\ \E o \in EcTampered(out.val) :
          ver' = [st |-> "done", kind |-> "tamper", o |-> o, vk |-> inp.vk,
                  x |-> inp.x, res |-> ec_verify(o, inp.vk, inp.x)]
    /\ UNCHANGED <<seed, scheme, inp, out, prev, nEval>>

(* InversionProof *)

InvProve ==
    /\ scheme = "inv"
    /\ out.st = "none"
    /\ nEval < MaxEvals
    /\ \E rnd \in Rnds :
          LET r == prove(inp.g, inp.h, inp.g_tilde, inp.h_tilde, inp.gamma,
                         inp.delta, inp.theta, rnd)
          IN  out' = IF r.st = "panic" THEN Panic
                     ELSE [st |-> "ok", val |-> r.val, rnd |-> rnd]
    /\ nEval' = nEval + 1
    /\ UNCHANGED <<seed, scheme, inp, prev, ver>>

InvVerify ==
    /\ scheme = "inv"
    /\ out.st = "ok"
    /\ nEval = 1
    /\ ver.st = "none"
    /\ ver' = [st |-> "done", kind |-> "args", o |-> out.val,
               res |-> inv_verify(out.val, inp.g, inp.h, inp.g_tilde, inp.h_tilde,
                                  inp.delta, inp.theta)]
    /\ UNCHANGED <<seed, scheme, inp, out, prev, nEval>>

(* RKA-VRF *)

RkaEval ==
    /\ scheme = "rka"
    /\ out.st = "none"
    /\ nEval < MaxEvals
    /\ \E g_tilde \in PointSet, h_tilde \in PointSet, rnd \in Rnds :
          LET r == rka_eval(g_tilde, h_tilde, inp.vk, inp.sk, inp.x, rnd)
          IN  out' = IF r.st = "panic" THEN Panic
                     ELSE [st |-> "ok", val |-> r.val, rnd |-> rnd,
                           g_tilde |-> g_tilde, h_tilde |-> h_tilde]
    /\ nEval' = nEval + 1
    /\ UNCHANGED <<seed, scheme, inp, prev, ver>>

\* verify of the output at hand under its reference string, against any key
\* and input.
RkaVerify ==
    /\ scheme = "rka"
    /\ out.st = "ok"
    /\ nEval = 1
    /\ ver.st = "none"
    /\ \E vk \in PointSet \cup {inp.vk}, x \in PointSet :
          ver' = [st |-> "done", kind |-> "args", o |-> out.val, vk |-> vk, x |-> x,
                  res |-> rka_verify(out.val, out.g_tilde, out.h_tilde, vk, x)]
    /\ UNCHANGED <<seed, scheme, inp, out, prev, nEval>>

RkaTampered(o) ==
    {[o EXCEPT !.y = o.y + d] : d \in Deltas}
    \cup {[o EXCEPT !.u = PAdd(o.u, PMul(Generator, d))] : d \in Deltas}
    \cup {[o EXCEPT !.r.zt = SAdd(o.r.zt, d)] : d \in Deltas}
    \cup {[o EXCEPT !.r.zl = SAdd(o.r.zl, d)] : d \in Deltas}
    \cup {[o EXCEPT !.r.zr = SAdd(o.r.zr, d)] : d \in Deltas}
    \cup {[o EXCEPT !.r.x = SAdd(o.r.x, d)] : d \in Deltas}
    \cup {[o EXCEPT !.r.t1_point = PAdd(o.r.t1_point, PMul(Generator, d))] : d \in Deltas}

RkaVerifyTampered ==
    /\ scheme = "rka"
    /\ out.st = "ok"
    /\ nEval = 1
    /\ ver.st = "none"
    /\ \E o \in RkaTampered(out.val) :
          ver' = [st |-> "done", kind |-> "tamper", o |-> o, vk |-> inp.vk,
                  x |-> inp.x,
                  res |-> rka_verify(o, out.g_tilde, out.h_tilde, inp.vk, inp.x)]
    /\ UNCHANGED <<seed, scheme, inp, out, prev, nEval>>

\* What is kept of an output for comparison with the next invocation's: the
\* whole EC-VRF output and its nonce; y, u and the reference string of an
\* RKA-VRF output.
Kept(o) ==
    CASE scheme = "ec" -> o
      [] scheme = "inv" -> [st |-> "ok"]
      [] scheme = "rka" -> [st |-> "ok", y |-> o.val.y, u |-> o.val.u,
                            g_tilde |-> o.g_tilde, h_tilde |-> o.h_tilde]

\* The output at hand goes out of scope (the benchmark loops call eval again
\* and again on the same key and input, dropping each output).
Drop ==
    /\ out.st # "none"
    /\ prev' = IF out.st = "ok" THEN Kept(out) ELSE prev
    /\ out' = NoOut
    /\ ver' = NoVer
    /\ UNCHANGED <<seed, scheme, inp, nEval>>

NextEc == EcEval \/ EcVerify \/ EcVerifyTampered \/ Drop
NextInv == InvProve \/ InvVerify \/ Drop
NextRka == RkaEval \/ RkaVerify \/ RkaVerifyTampered \/ Drop
Next ==
    \/ EcEval \/ EcVerify \/ EcVerifyTampered
    \/ InvProve \/ InvVerify
    \/ RkaEval \/ RkaVerify \/ RkaVerifyTampered
    \/ Drop

SpecEc == InitEc /\ [][NextEc]_vars
SpecInv == InitInv /\ [][NextInv]_vars
SpecRka == InitRka /\ [][NextRka]_vars
Spec == Init /\ [][Next]_vars

---------------------------------------------------------------------------
(* What the prover and the verifier hash *)

\* verify was called on the output at hand with the key and input it was made for.
HonestVerify ==
    /\ ver.st = "done"
    /\ ver.kind = "args"
    /\ (scheme # "inv" => ver.vk = inp.vk /\ ver.x = inp.x)

\* verify was called on the output at hand with another key or another input.
WrongArgsVerify ==
    /\ ver.st = "done"
    /\ ver.kind = "args"
    /\ scheme # "inv"
    /\ <<ver.vk, ver.x>> # <<inp.vk, inp.x>>

\* verify was called on the output at hand with one field replaced.
TamperedVerify == ver.st = "done" /\ ver.kind = "tamper"

\* The bytes the EC-VRF prover hashed into its challenge, from its nonce.
EcProverBytes ==
    LET h == ec_hash_point(inp.x)
    IN  ec_challenge_bytes(ED25519_BASEPOINT_POINT, h, inp.vk, out.val.gamma,
                           EMul(ED25519_BASEPOINT_POINT, out.k), EMul(h, out.k))

\* The bytes the EC-VRF verifier hashed into the challenge it compares.
EcVerifierBytes ==
    ec_challenge_bytes(ED25519_BASEPOINT_POINT, ec_hash_point(ver.x), ver.vk,
                       ver.o.gamma, ec_verify_u(ver.o, ver.vk),
                       ec_verify_v(ver.o, ver.x))

\* The points the InversionProof prover of an RKA-VRF output hashed, from its
\* random scalars.
RkaProverPoints ==
    LET base == rka_hash_point(inp.vk, inp.x)
        r == out.rnd
    IN  <<Generator, base, out.g_tilde, out.h_tilde, inp.vk, out.val.u,
          PMul(Generator, r.alpha), PMul(base, r.beta),
          PAdd(PMul(out.g_tilde, SMul(r.alpha, r.beta)), PMul(out.h_tilde, r.tau0)),
          out.val.r.t1_point>>

\* The points the InversionProof verifier of an RKA-VRF output hashed.
RkaVerifierPoints ==
    LET base == rka_hash_point(ver.vk, ver.x)
    IN  <<Generator, base, out.g_tilde, out.h_tilde, ver.vk, ver.o.u,
          inv_verify_s1(ver.o.r, Generator, ver.vk),
          inv_verify_s2(ver.o.r, base, ver.o.u),
          inv_verify_t0(ver.o.r, out.g_tilde, out.h_tilde),
          ver.o.r.t1_point>>

---------------------------------------------------------------------------
(* Claims *)

\* C1: EC-VRF completeness. For a nonzero sk, vk = g*sk, every input x and
\* every nonce k, verify of eval's output against (vk, x) returns true, and
\* the verifier's u and v are the prover's g*k and h*k.
EcCompleteness ==
    (scheme = "ec" /\ HonestVerify /\ inp.sk # 0) =>
        /\ ver.res
        /\ ec_verify_u(ver.o, ver.vk) = EMul(ED25519_BASEPOINT_POINT, out.k)
        /\ ec_verify_v(ver.o, ver.x) = EMul(ec_hash_point(inp.x), out.k)

EcCompletenessWitness ==
    /\ scheme = "ec" /\ HonestVerify /\ inp.sk # 0 /\ inp.x = 0
    /\ out.val.c # 0 /\ out.k # 0
    /\ ver.res

\* C2: RKA-VRF completeness. For a nonzero sk, vk = g*sk, every input point,
\* every reference string and every choice of the prover's random scalars,
\* verify of eval's output against the same reference string, vk and x
\* returns true.
RkaCompleteness ==
    (scheme = "rka" /\ HonestVerify) => ver.res

RkaCompletenessWitness ==
    /\ scheme = "rka" /\ HonestVerify /\ ver.res
    /\ SMul(inp.sk, inp.sk) # 1
    /\ out.val.r.x # 0 /\ out.val.u # Identity

\* C3: InversionProof completeness. For a nonzero gamma, delta = g*gamma and
\* theta = h*gamma^-1, verify of prove's proof returns true, and the
\* verifier's s1, s2 and T0 are the prover's.
InvCompleteness ==
    (scheme = "inv" /\ HonestVerify /\ inp.gamma # 0) =>
        /\ ver.res
        /\ inv_verify_s1(ver.o, inp.g, inp.delta) = PMul(inp.g, out.rnd.alpha)
        /\ inv_verify_s2(ver.o, inp.h, inp.theta) = PMul(inp.h, out.rnd.beta)
        /\ inv_verify_t0(ver.o, inp.g_tilde, inp.h_tilde)
              = PAdd(PMul(inp.g_tilde, SMul(out.rnd.alpha, out.rnd.beta)),
                     PMul(inp.h_tilde, out.rnd.tau0))

InvCompletenessWitness ==
    /\ scheme = "inv" /\ HonestVerify /\ ver.res
    /\ SMul(inp.gamma, inp.gamma) # 1
    /\ inp.g # Identity /\ inp.h # Identity
    /\ inp.g_tilde # Identity /\ inp.h_tilde # Identity
    /\ out.val.x # 0

\* C4: EC-VRF output determinism. Two invocations of eval on the same
\* (vk, sk, x) return the same y and the same gamma, whatever nonces they draw.
EcOutputDeterminism ==
    (scheme = "ec" /\ prev.st = "ok" /\ out.st = "ok") =>
        /\ out.val.y = prev.val.y
        /\ out.val.gamma = prev.val.gamma

EcOutputDeterminismWitness ==
    /\ scheme = "ec" /\ prev.st = "ok" /\ out.st = "ok"
    /\ out.k # prev.k
    /\ out.val.c # prev.val.c
    /\ out.val.s # prev.val.s

\* C5: RKA-VRF output independence. Two invocations of eval on the same
\* (vk, sk, x), with any reference strings and any random scalars, return the
\* same y and the same u.
RkaOutputIndependence ==
    (scheme = "rka" /\ prev.st = "ok" /\ out.st = "ok") =>
        /\ out.val.y = prev.y
        /\ out.val.u = prev.u

RkaOutputIndependenceWitness ==
    /\ scheme = "rka" /\ prev.st = "ok" /\ out.st = "ok"
    /\ out.g_tilde # prev.g_tilde
    /\ out.h_tilde # prev.h_tilde
    /\ out.rnd.alpha # 0 /\ out.rnd.tau1 # 0

RkaNothingHashedChanged ==
    \/ /\ ver.o.r.zt # out.val.r.zt
       /\ out.h_tilde = Identity
    \/ /\ ver.o.r.zr # out.val.r.zr
       /\ rka_hash_point(inp.vk, inp.x) = Identity
       /\ PMul(out.g_tilde, out.val.r.zl) = Identity

IdentityRejected ==
    ver.st = "done" =>
        /\ (scheme = "ec" /\ (ver.vk = EcIdentity \/ ver.o.gamma = EcIdentity))
              => ~ver.res
        /\ (scheme = "rka" /\ (ver.vk = Identity \/ ver.o.u = Identity
                               \/ ver.o.r.t1_point = Identity))
              => ~ver.res
        /\ (scheme = "inv" /\ (inp.delta = Identity \/ inp.theta = Identity
                               \/ ver.o.t1_point = Identity))
              => ~ver.res

\* C9: a zero scalar is fatal to the prover. prove with gamma = 0 and
\* RKA-VRF eval with sk = 0 fail at the inversion and return nothing: there is
\* never an output or a proof, whatever the other arguments.
ZeroScalarFatal ==
    ((scheme = "inv" /\ inp.gamma = 0) \/ (scheme = "rka" /\ inp.sk = 0)) =>
        /\ out.st \in {"none", "panic"}
        /\ prev.st = "none"
        /\ ver.st = "none"

ZeroScalarFatalWitness ==
    /\ scheme = "rka" /\ inp.sk = 0
    /\ out.st = "panic"
    /\ nEval = 2

\* C10 as stated: the y of an RKA-VRF output is reduced modulo the group
\* order, 0 <= y < q.
RkaOutputReduced ==
    (scheme = "rka" /\ out.st = "ok") => out.val.y \in 0 .. (Q - 1)

\* C10, amended: y is the digest of compress(x) || compress(u) read as an
\* integer and not reduced, 0 <= y < the number of digests, and verify
\* accepts only an output whose y is that digest.
RkaOutputIsDigest ==
    /\ (scheme = "rka" /\ out.st = "ok") =>
          /\ out.val.y = Sha512(PointBytes(inp.x) \o PointBytes(out.val.u))
          /\ out.val.y \in 0 .. (DigestSpace - 1)
    /\ (scheme = "rka" /\ ver.st = "done" /\ ver.res) =>
          ver.o.y = Sha512(PointBytes(ver.x) \o PointBytes(ver.o.u))

RkaOutputIsDigestWitness ==
    /\ scheme = "rka" /\ HonestVerify /\ ver.res
    /\ out.val.y >= Q

====
